---------------------------- MODULE Spec2Model ----------------------------
(***************************************************************************)
(* Model of reupload_with_map.py: the per-asset reupload pipeline          *)
(* (process_reupload over download_asset / upload_asset), the identifier   *)
(* map kept by main() in all_id_pairs, its persistence by save_id_map, and *)
(* the interactive session loop of main().                                 *)
(*                                                                         *)
(* Python strings are modelled as tuples of characters, e.g. "07" is       *)
(* <<"0","7">>.  Two characters are written as named tokens: SCHEME is the *)
(* literal text "rbxassetid://" and SUP2 is U+00B2 (superscript two), a    *)
(* character for which str.isdigit() is True while int() rejects it.       *)
(***************************************************************************)
EXTENDS Integers, Sequences, FiniteSets, TLC

(* ------------------------------ bounds -------------------------------- *)
\* process_reupload calls made by one run of main()
MaxCalls == 2
\* properties in one scene document
MaxProps == 2
\* properties in one document given to extract_animation_ids on its own
MaxScanProps == 2

(* --------------------------- program constants ------------------------ *)
\* r.status_code >= 400 is a failure (download_asset and upload_asset)
HttpErrorFloor == 400
\* time.sleep(1)
SleepSeconds == 1

(* ------------------------------ strings ------------------------------- *)
SCHEME == "rbxassetid://"
SUP2 == "sup2"
AsciiDigits == <<"0", "1", "2", "3", "4", "5", "6", "7", "8", "9">>

IsAsciiDigit(c) == \E i \in 1..10 : AsciiDigits[i] = c
DigitVal(c) == (CHOOSE i \in 1..10 : AsciiDigits[i] = c) - 1

\* str.isdigit(): non-empty and every character is a digit character
\* (the ASCII digits, and also characters such as superscript two)
isdigit(s) == s # <<>> /\ \A i \in 1..Len(s) : IsAsciiDigit(s[i]) \/ s[i] = SUP2

RECURSIVE LStrip(_)
LStrip(s) == IF s # <<>> /\ Head(s) = " " THEN LStrip(Tail(s)) ELSE s

RECURSIVE RStrip(_)
RStrip(s) == IF s # <<>> /\ s[Len(s)] = " " THEN RStrip(SubSeq(s, 1, Len(s) - 1)) ELSE s

RECURSIVE DecValue(_)
DecValue(s) == IF s = <<>> THEN 0
               ELSE 10 * DecValue(SubSeq(s, 1, Len(s) - 1)) + DigitVal(s[Len(s)])

\* int(str): surrounding whitespace is skipped, one sign is allowed, the
\* rest must be one or more decimal digits; anything else is ValueError.
PyInt(s) ==
    LET t == RStrip(LStrip(s))
        signed == t # <<>> /\ Head(t) \in {"-", "+"}
        body == IF signed THEN Tail(t) ELSE t
        ok == body # <<>> /\ \A i \in 1..Len(body) : IsAsciiDigit(body[i])
    IN  [ok |-> ok,
         v |-> IF ~ok THEN 0
               ELSE IF signed /\ Head(t) = "-" THEN 0 - DecValue(body)
               ELSE DecValue(body)]

RECURSIVE NatText(_)
NatText(n) == IF n < 10 THEN <<AsciiDigits[n + 1]>>
              ELSE NatText(n \div 10) \o <<AsciiDigits[(n % 10) + 1]>>

\* the decimal text json.dump writes for an int
IntText(n) == IF n < 0 THEN <<"-">> \o NatText(0 - n) ELSE NatText(n)

(* ---------------------------- JSON values ----------------------------- *)
\* A JSON value found at an identifier field: absent key, null, an integer
\* or a string.
JV(t, n, s) == [t |-> t, n |-> n, s |-> s]
JAbsent == JV("absent", 0, <<>>)
JNull == JV("null", 0, <<>>)
JInt(n) == JV("int", n, <<>>)
JStr(s) == JV("str", 0, s)

\* Python truth value of a looked-up field (None, 0 and "" are false)
Truthy(v) == CASE v.t = "int" -> v.n # 0
               [] v.t = "str" -> v.s # <<>>
               [] OTHER -> FALSE

\* dict.get(key): None when the key is absent
DictGet(v) == IF v.t = "absent" THEN JNull ELSE v

\* The "data" member of a response: absent, null, a string, or an object
\* holding (or not) an "assetId" member.
DV(t, a) == [t |-> t, assetId |-> a]
DAbsent == DV("absent", JAbsent)
DNull == DV("null", JAbsent)
DStr == DV("str", JAbsent)
DDict(a) == DV("dict", a)

\* A parsed upload response: a JSON object with the three members the
\* pipeline looks at, or a JSON value that is not an object.
Body(a, i, d) == [t |-> "dict", assetId |-> a, id |-> i, data |-> d]
NonObject == [t |-> "list", assetId |-> JAbsent, id |-> JAbsent, data |-> DAbsent]
NoBody == [t |-> "none", assetId |-> JAbsent, id |-> JAbsent, data |-> DAbsent]

(* ------------------------- download / upload -------------------------- *)
\* What the remote side does to one GET: a request-level fault, or a
\* response with a status whose content can or cannot be read.
DlReply(fault, status) == [fault |-> fault, status |-> status]

\* variant: the status test written with > instead of >=
DownloadAssetAboveFloor(asset_id, dl) ==
    IF dl.fault = "request" THEN [ok |-> FALSE, msg |-> "Request error"]
    ELSE IF dl.status > HttpErrorFloor THEN [ok |-> FALSE, msg |-> "Download failed"]
    ELSE IF dl.fault = "content" THEN [ok |-> FALSE, msg |-> "Failed read content"]
    ELSE [ok |-> TRUE, msg |-> "bytes"]

download_asset(asset_id, dl) ==
    IF dl.fault = "request" THEN [ok |-> FALSE, msg |-> "Request error"]
    ELSE IF dl.status >= HttpErrorFloor THEN [ok |-> FALSE, msg |-> "Download failed"]
    ELSE IF dl.fault = "content" THEN [ok |-> FALSE, msg |-> "Failed read content"]
    ELSE [ok |-> TRUE, msg |-> "bytes"]

\* What the remote side does to one POST: a request-level fault, or a
\* response with a status and a body that parses as JSON or does not.
UlReply(fault, status, body) == [fault |-> fault, status |-> status, body |-> body]

upload_asset(ul) ==
    IF ul.fault = "request" THEN [ok |-> FALSE, res |-> NoBody]
    ELSE IF ul.status >= HttpErrorFloor THEN [ok |-> FALSE, res |-> NoBody]
    ELSE IF ul.fault = "nonjson" THEN [ok |-> FALSE, res |-> NoBody]
    ELSE [ok |-> TRUE, res |-> ul.body]

(* --------------------------- process_reupload ------------------------- *)
\* res.get("assetId") or res.get("id") or res.get("data", {}).get("assetId")
\* The third operand is evaluated only when the first two are false; it
\* raises AttributeError when "data" is present and is not an object.
\* variant: "id" looked up before "assetId"
NewIdLookupIdFirst(res) ==
    IF res.t # "dict" THEN [raised |-> FALSE, v |-> JNull]
    ELSE IF Truthy(res.id) THEN [raised |-> FALSE, v |-> res.id]
    ELSE IF Truthy(res.assetId) THEN [raised |-> FALSE, v |-> res.assetId]
    ELSE IF res.data.t = "absent" THEN [raised |-> FALSE, v |-> JNull]
    ELSE IF res.data.t = "dict" THEN [raised |-> FALSE, v |-> DictGet(res.data.assetId)]
    ELSE [raised |-> TRUE, v |-> JNull]

NewIdLookup(res) ==
    IF res.t # "dict" THEN [raised |-> FALSE, v |-> JNull]
    ELSE IF Truthy(res.assetId) THEN [raised |-> FALSE, v |-> res.assetId]
    ELSE IF Truthy(res.id) THEN [raised |-> FALSE, v |-> res.id]
    ELSE IF res.data.t = "absent" THEN [raised |-> FALSE, v |-> JNull]
    ELSE IF res.data.t = "dict" THEN [raised |-> FALSE, v |-> DictGet(res.data.assetId)]
    ELSE [raised |-> TRUE, v |-> JNull]

\* Replies that were never asked for
NoDl == DlReply("unused", 0)
NoUl == UlReply("unused", 0, NoBody)

\* The outcome of one call: the argument, the replies it consumed, whether
\* it raised, the returned pair (success, new_id), the transport functions
\* it invoked in order, the seconds it slept and the message it printed
\* last.
Outcome(arg, dl, ul, raised, success, new_id, net, slept, msg) ==
    [arg |-> arg, dl |-> dl, ul |-> ul, raised |-> raised, success |-> success,
     new_id |-> new_id, net |-> net, slept |-> slept, msg |-> msg]

\* variant: no pause when the identifier is not found
StepResolveNoPause(asset_id, dl, ul) ==
    LET l == NewIdLookup(upload_asset(ul).res)
    IN  IF l.raised
        THEN Outcome(asset_id, dl, ul, TRUE, FALSE, JNull,
                     <<"download_asset", "upload_asset">>, 0, "AttributeError")
        ELSE IF Truthy(l.v)
        THEN Outcome(asset_id, dl, ul, FALSE, TRUE, l.v,
                     <<"download_asset", "upload_asset">>, SleepSeconds,
                     "New Asset ID")
        ELSE Outcome(asset_id, dl, ul, FALSE, FALSE, JNull,
                     <<"download_asset", "upload_asset">>, 0,
                     "Could not find new asset id")

\* lines 159-174: look the new identifier up, report, pause, return
StepResolve(asset_id, dl, ul) ==
    LET l == NewIdLookup(upload_asset(ul).res)
    IN  IF l.raised
        THEN Outcome(asset_id, dl, ul, TRUE, FALSE, JNull,
                     <<"download_asset", "upload_asset">>, 0, "AttributeError")
        ELSE IF Truthy(l.v)
        THEN Outcome(asset_id, dl, ul, FALSE, TRUE, l.v,
                     <<"download_asset", "upload_asset">>, SleepSeconds,
                     "New Asset ID")
        ELSE Outcome(asset_id, dl, ul, FALSE, FALSE, JNull,
                     <<"download_asset", "upload_asset">>, SleepSeconds,
                     "Could not find new asset id")

\* variant: a failed upload is tried a second time
StepUploadRetry(asset_id, dl, ul) ==
    IF ~upload_asset(ul).ok
    THEN Outcome(asset_id, dl, ul, FALSE, FALSE, JNull,
                 <<"download_asset", "upload_asset", "upload_asset">>, 0, "Upload failed")
    ELSE StepResolve(asset_id, dl, ul)

\* lines 152-157: upload once; a failure is returned
StepUpload(asset_id, dl, ul) ==
    IF ~upload_asset(ul).ok
    THEN Outcome(asset_id, dl, ul, FALSE, FALSE, JNull,
                 <<"download_asset", "upload_asset">>, 0, "Upload failed")
    ELSE StepResolve(asset_id, dl, ul)

\* lines 145-150: download once; a failure is returned
StepDownload(asset_id, dl, ul) ==
    IF ~download_asset(PyInt(asset_id).v, dl).ok
    THEN Outcome(asset_id, dl, NoUl, FALSE, FALSE, JNull, <<"download_asset">>, 0,
                 "Download failed")
    ELSE StepUpload(asset_id, dl, ul)

\* variant: the identifier is not validated before the download
ProcessUnvalidated(asset_id, dl, ul) == StepDownload(asset_id, dl, ul)

\* lines 139-143: int(asset_id); ValueError is caught and returned
process_reupload(asset_id, dl, ul) ==
    IF ~PyInt(asset_id).ok
    THEN Outcome(asset_id, NoDl, NoUl, FALSE, FALSE, JNull, <<>>, 0, "Invalid AssetId")
    ELSE StepDownload(asset_id, dl, ul)

(* ------------------------ extract_animation_ids ----------------------- *)
\* A property node under Item/Properties: whether its tag or name holds
\* "AnimationId", and its text (<<>> when the node has no text).
Prop(marked, text) == [marked |-> marked, text |-> text]

\* if "rbxassetid://" in value: value = value.replace("rbxassetid://", "")
RemoveScheme(value) == SelectSeq(value, LAMBDA c : c # SCHEME)

\* A document is a set of property nodes, or a file ET.parse rejects.
extract_animation_ids(doc) ==
    IF ~doc.parsed THEN {}
    ELSE {RemoveScheme(p.text) :
            p \in {q \in doc.props :
                     q.marked /\ q.text # <<>> /\ isdigit(RemoveScheme(q.text))}}

\* Code point of a character, the order sorted() compares strings by
Ord(c) == IF IsAsciiDigit(c) THEN 48 + DigitVal(c)
          ELSE IF c = SUP2 THEN 178
          ELSE IF c = " " THEN 32
          ELSE IF c = "+" THEN 43
          ELSE IF c = "-" THEN 45
          ELSE 97

RECURSIVE StrLess(_, _)
StrLess(a, b) ==
    IF b = <<>> THEN FALSE
    ELSE IF a = <<>> THEN TRUE
    ELSE IF Ord(Head(a)) # Ord(Head(b)) THEN Ord(Head(a)) < Ord(Head(b))
    ELSE StrLess(Tail(a), Tail(b))

RECURSIVE sorted(_)
sorted(S) ==
    IF S = {} THEN <<>>
    ELSE LET m == CHOOSE x \in S : \A y \in S \ {x} : StrLess(x, y)
         IN  <<m>> \o sorted(S \ {m})

(* ------------------------------ save_id_map --------------------------- *)
\* int(new) for a new identifier taken from a response
IntOfValue(v) == IF v.t = "int" THEN [ok |-> TRUE, v |-> v.n]
                 ELSE IF v.t = "str" THEN PyInt(v.s)
                 ELSE [ok |-> FALSE, v |-> 0]

\* The map file: absent, completely written, or cut short by a failed
\* write.  A written file holds one record per mapping, each field as the
\* decimal text json.dump writes.
FileOf(state, records) == [state |-> state, records |-> records]
NoFile == FileOf("absent", <<>>)

\* map_data.append({"oldId": int(old), "newId": int(new)}) for every pair
MapData(id_pairs_list) ==
    [i \in 1..Len(id_pairs_list) |->
        [oldId |-> PyInt(id_pairs_list[i][1]).v,
         newId |-> IntOfValue(id_pairs_list[i][2]).v]]

\* json.dump(map_data, f, indent=2)
JsonDump(map_data) ==
    [i \in 1..Len(map_data) |->
        [oldId |-> IntText(map_data[i].oldId), newId |-> IntText(map_data[i].newId)]]

\* variant: the file is opened for appending instead of writing
SaveIdMapAppending(id_pairs_list, io, old) ==
    IF \E i \in 1..Len(id_pairs_list) :
          ~PyInt(id_pairs_list[i][1]).ok \/ ~IntOfValue(id_pairs_list[i][2]).ok
    THEN [raised |-> TRUE, file |-> old, printed |-> "none"]
    ELSE IF io = "open_error"
    THEN [raised |-> FALSE, file |-> old, printed |-> "ERROR"]
    ELSE IF io = "write_error"
    THEN [raised |-> FALSE, file |-> FileOf("partial", <<>>), printed |-> "ERROR"]
    ELSE [raised |-> FALSE,
          file |-> FileOf("written", old.records \o JsonDump(MapData(id_pairs_list))),
          printed |-> "COMPLETE"]

\* save_id_map(id_pairs_list) on the file old, with io the fate of the
\* write: the conversions run first and are outside the try block; open()
\* truncates; an OSError is caught and printed.
save_id_map(id_pairs_list, io, old) ==
    IF \E i \in 1..Len(id_pairs_list) :
          ~PyInt(id_pairs_list[i][1]).ok \/ ~IntOfValue(id_pairs_list[i][2]).ok
    THEN [raised |-> TRUE, file |-> old, printed |-> "none"]
    ELSE IF io = "open_error"
    THEN [raised |-> FALSE, file |-> old, printed |-> "ERROR"]
    ELSE IF io = "write_error"
    THEN [raised |-> FALSE, file |-> FileOf("partial", <<>>), printed |-> "ERROR"]
    ELSE [raised |-> FALSE, file |-> FileOf("written", JsonDump(MapData(id_pairs_list))),
          printed |-> "COMPLETE"]

(* ------------------------------- inputs ------------------------------- *)
\* Identifier texts handed to process_reupload directly
AssetIdInputs ==
    {<<"7">>, <<"0", "7">>, <<"1", "2">>, <<"0">>, <<"-", "5">>, <<" ", "7">>,
     <<"a">>, <<SUP2>>, <<>>}

\* Replies to the GET
DlReplies ==
    {DlReply("request", 0)}
    \cup {DlReply(f, st) : f \in {"none", "content"}, st \in {200, 399, 400, 404}}

\* Values an identifier member of a response may hold
IdValues == {JAbsent, JNull, JInt(0), JInt(5), JInt(7), JInt(999), JStr(<<"a">>)}

\* Parsed bodies of a successful POST
Bodies ==
    {Body(a, i, d) : a \in IdValues, i \in IdValues,
                     d \in {DAbsent, DNull, DStr} \cup {DDict(x) : x \in IdValues}}
    \cup {NonObject}

\* Replies to the POST
UlFailures ==
    {UlReply("request", 0, NoBody), UlReply("none", 400, NoBody),
     UlReply("none", 500, NoBody), UlReply("nonjson", 200, NoBody)}
UlReplies == UlFailures \cup {UlReply("none", st, b) : st \in {200, 399}, b \in Bodies}

\* Replies met by an interactive session: one reply of each kind
SessionDlReplies == {DlReply("none", 200), DlReply("none", 400), DlReply("request", 0)}
SessionBodies ==
    {Body(JInt(999), JAbsent, DAbsent),
     Body(JAbsent, JAbsent, DDict(JInt(7))),
     Body(JStr(<<"a">>), JAbsent, DAbsent),
     Body(JAbsent, JAbsent, DAbsent),
     Body(JAbsent, JAbsent, DNull)}
SessionUlReplies ==
    {UlReply("none", 500, NoBody), UlReply("nonjson", 200, NoBody)}
    \cup {UlReply("none", 200, b) : b \in SessionBodies}

\* What the operator types at the manual prompt (after strip())
ManualInputs == {<<"7">>, <<"0", "7">>, <<SUP2>>, <<"a">>, <<"-", "5">>}

\* Property nodes a scene document is built from
PropPool ==
    {Prop(TRUE, <<"7">>), Prop(TRUE, <<"0", "7">>), Prop(TRUE, <<SCHEME, "7">>),
     Prop(TRUE, <<"1", SCHEME, "2">>), Prop(TRUE, <<SUP2>>), Prop(TRUE, <<"a">>),
     Prop(TRUE, <<>>), Prop(FALSE, <<"5">>)}
Documents ==
    {[parsed |-> TRUE, props |-> ps] :
        ps \in {q \in SUBSET PropPool : Cardinality(q) <= MaxProps}}
    \cup {[parsed |-> FALSE, props |-> {}]}

\* Property nodes of the documents extract_animation_ids is given on its own
ScanPool ==
    PropPool
    \cup {Prop(TRUE, <<"7", SCHEME>>), Prop(TRUE, <<SCHEME>>), Prop(TRUE, <<SCHEME, "a">>),
          Prop(TRUE, <<SCHEME, SCHEME, "7">>), Prop(TRUE, <<"1", "2">>),
          Prop(FALSE, <<SCHEME, "7">>), Prop(FALSE, <<"a">>)}
ScanDocuments ==
    {[parsed |-> TRUE, props |-> ps] :
        ps \in {q \in SUBSET ScanPool : Cardinality(q) <= MaxScanProps}}
    \cup {[parsed |-> FALSE, props |-> {}]}

\* Fates of the write in save_id_map
IoFates == {"ok", "open_error", "write_error"}

(* -------------------------------- state ------------------------------- *)
VARIABLES
    pc,             \* where main() is: menu, batch, manual, exited, crashed
    all_id_pairs,   \* the in-memory identifier map
    ids_to_process, \* the set extracted for the batch in progress
    count,          \* iterations of the batch loop done
    file,           \* reupload_map.json
    last,           \* outcome of the latest process_reupload call
    exc,            \* the uncaught exception that ended main(), if any
    ncalls,         \* process_reupload calls made so far
    last_save,      \* history: the latest save_id_map call
    succeeded,      \* history: (asset_id, new_id) of this session's successful calls
    processed,      \* history: identifiers the batch loop handed to process_reupload
    batch_state,    \* history: none, running, complete, aborted
    session_saves,  \* history: save_id_map calls made by the session
    completed,      \* history: the map of the session that ended last
    scanned         \* the document given to extract_animation_ids on its own

vars == <<pc, all_id_pairs, ids_to_process, count, file, last, exc, ncalls,
          last_save, succeeded, processed, batch_state, session_saves, completed,
          scanned>>

\* A save_id_map call: the list it was given, the fate of its write (when
\* it got that far) and whether it raised
SaveCall(list, io, raised) == [called |-> TRUE, list |-> list, io |-> io, raised |-> raised]
NoSave == [called |-> FALSE, list |-> <<>>, io |-> "none", raised |-> FALSE]

NoCall == Outcome(<<>>, NoDl, NoUl, FALSE, FALSE, JNull, <<>>, 0, "none")

\* The map a session ended with
Ended(pairs) == [any |-> TRUE, pairs |-> pairs]
NoneEnded == [any |-> FALSE, pairs |-> <<>>]

\* A document handed to extract_animation_ids
Scan(doc) == [given |-> TRUE, doc |-> doc]
NoScan == [given |-> FALSE, doc |-> [parsed |-> FALSE, props |-> {}]]

Init ==
    /\ pc = "menu"
    /\ all_id_pairs = <<>>
    /\ ids_to_process = {}
    /\ count = 0
    /\ file = NoFile
    /\ last = NoCall
    /\ exc = "none"
    /\ ncalls = 0
    /\ last_save = NoSave
    /\ succeeded = <<>>
    /\ processed = <<>>
    /\ batch_state = "none"
    /\ session_saves = 0
    /\ completed = NoneEnded
    /\ scanned = NoScan

(* -------------------------------- main() ------------------------------ *)
\* variant: the pair is appended whatever the call returned
RecordAlways(pairs, asset_id, o) == Append(pairs, <<asset_id, o.new_id>>)

\* variant: the pair is inserted at the front
RecordAtFront(pairs, asset_id, o) ==
    IF o.success /\ Truthy(o.new_id) THEN <<<<asset_id, o.new_id>>>> \o pairs
    ELSE pairs

\* variant: a pair replaces the earlier pair of the same old identifier
RecordReplacing(pairs, asset_id, o) ==
    IF o.success /\ Truthy(o.new_id)
    THEN Append(SelectSeq(pairs, LAMBDA e : e[1] # asset_id), <<asset_id, o.new_id>>)
    ELSE pairs

\* if success and new_id: all_id_pairs.append((asset_id, new_id))
record(pairs, asset_id, o) ==
    IF o.success /\ Truthy(o.new_id) THEN Append(pairs, <<asset_id, o.new_id>>)
    ELSE pairs

\* history of the successful calls of the session
Note(hist, asset_id, o) ==
    IF o.success THEN Append(hist, <<asset_id, o.new_id>>) ELSE hist

\* variant: the session goes on without the save
GoWithoutSaving(pairs, io, next_pc) ==
    /\ pc' = next_pc
    /\ completed' = Ended(pairs)
    /\ UNCHANGED <<file, exc, last_save, session_saves>>

\* variant: the manual loop is not left after the save of 'b'
SaveAndStay(pairs, io, next_pc) ==
    LET s == save_id_map(pairs, io, file)
        go == IF pc = "manual" /\ next_pc = "menu" THEN "manual" ELSE next_pc
    IN  IF pairs = <<>>
        THEN pc' = go /\ completed' = Ended(pairs)
             /\ UNCHANGED <<file, exc, last_save, session_saves>>
        ELSE IF s.raised
        THEN /\ pc' = "crashed"
             /\ exc' = "ValueError"
             /\ last_save' = SaveCall(pairs, "none", TRUE)
             /\ session_saves' = session_saves + 1
             /\ UNCHANGED <<file, completed>>
        ELSE /\ pc' = go
             /\ file' = s.file
             /\ last_save' = SaveCall(pairs, io, FALSE)
             /\ session_saves' = session_saves + 1
             /\ completed' = Ended(pairs)
             /\ UNCHANGED exc

\* if all_id_pairs: save_id_map(all_id_pairs), then go on at next_pc.
\* A ValueError raised by save_id_map is caught nowhere and ends main().
SaveAndGo(pairs, io, next_pc) ==
    LET s == save_id_map(pairs, io, file)
    IN  IF pairs = <<>>
        THEN pc' = next_pc /\ completed' = Ended(pairs)
             /\ UNCHANGED <<file, exc, last_save, session_saves>>
        ELSE IF s.raised
        THEN /\ pc' = "crashed"
             /\ exc' = "ValueError"
             /\ last_save' = SaveCall(pairs, "none", TRUE)
             /\ session_saves' = session_saves + 1
             /\ UNCHANGED <<file, completed>>
        ELSE /\ pc' = next_pc
             /\ file' = s.file
             /\ last_save' = SaveCall(pairs, io, FALSE)
             /\ session_saves' = session_saves + 1
             /\ completed' = Ended(pairs)
             /\ UNCHANGED exc

\* all_id_pairs = [] at line 216, with the histories of the session
ResetSession ==
    /\ all_id_pairs' = <<>>
    /\ succeeded' = <<>>
    /\ session_saves' = 0

\* mode == 'q' at the main menu
Quit ==
    /\ pc = "menu"
    /\ pc' = "exited"
    /\ UNCHANGED <<all_id_pairs, ids_to_process, count, file, last, exc, ncalls,
                   last_save, succeeded, processed, batch_state, session_saves,
                   completed, scanned>>

\* any other mode: all_id_pairs = [] before the mode is looked at
InvalidMode ==
    /\ pc = "menu"
    /\ ResetSession
    /\ processed' = <<>>
    /\ batch_state' = "none"
    /\ UNCHANGED <<pc, ids_to_process, count, file, last, exc, ncalls, last_save,
                   completed, scanned>>

\* mode '1' with a path that does not exist
BatchNoFile ==
    /\ pc = "menu"
    /\ ResetSession
    /\ processed' = <<>>
    /\ batch_state' = "none"
    /\ UNCHANGED <<pc, ids_to_process, count, file, last, exc, ncalls, last_save,
                   completed, scanned>>

\* mode '1' with a document that yields no identifier
BatchEmpty ==
    /\ pc = "menu"
    /\ \E doc \in Documents :
          /\ extract_animation_ids(doc) = {}
          /\ ids_to_process' = extract_animation_ids(doc)
    /\ ResetSession
    /\ processed' = <<>>
    /\ batch_state' = "none"
    /\ UNCHANGED <<pc, count, file, last, exc, ncalls, last_save, completed, scanned>>

\* mode '1' with a document that yields identifiers: the batch begins
BatchStart ==
    /\ pc = "menu"
    /\ \E doc \in Documents :
          /\ extract_animation_ids(doc) # {}
          /\ ncalls + Cardinality(extract_animation_ids(doc)) <= MaxCalls
          /\ ids_to_process' = extract_animation_ids(doc)
    /\ ResetSession
    /\ count' = 0
    /\ processed' = <<>>
    /\ batch_state' = "running"
    /\ pc' = "batch"
    /\ UNCHANGED <<file, last, exc, ncalls, last_save, completed, scanned>>

\* one iteration of: for asset_id in sorted(ids_to_process); the last
\* iteration goes on to "Batch processing complete." and the save
BatchStep ==
    /\ pc = "batch"
    /\ \E dl \in SessionDlReplies, ul \in SessionUlReplies, io \in IoFates :
          LET asset_id == sorted(ids_to_process)[count + 1]
              o == process_reupload(asset_id, dl, ul)
              pairs == record(all_id_pairs, asset_id, o)
          IN  /\ last' = o
              /\ ncalls' = ncalls + 1
              /\ processed' = Append(processed, asset_id)
              /\ IF o.raised
                 THEN /\ pc' = "crashed"
                      /\ exc' = "AttributeError"
                      /\ batch_state' = "aborted"
                      /\ UNCHANGED <<all_id_pairs, count, file, succeeded, last_save,
                                     session_saves, completed>>
                 ELSE /\ all_id_pairs' = pairs
                      /\ succeeded' = Note(succeeded, asset_id, o)
                      /\ count' = count + 1
                      /\ IF count + 1 < Cardinality(ids_to_process)
                         THEN UNCHANGED <<pc, exc, file, batch_state, last_save,
                                          session_saves, completed>>
                         ELSE /\ batch_state' = "complete"
                              /\ SaveAndGo(pairs, io, "menu")
    /\ UNCHANGED <<ids_to_process, scanned>>

\* mode '2'
ManualStart ==
    /\ pc = "menu"
    /\ ResetSession
    /\ processed' = <<>>
    /\ batch_state' = "none"
    /\ pc' = "manual"
    /\ UNCHANGED <<ids_to_process, count, file, last, exc, ncalls, last_save,
                   completed, scanned>>

\* 'q' at the manual prompt: save, then sys.exit()
ManualQuit ==
    /\ pc = "manual"
    /\ \E io \in IoFates : SaveAndGo(all_id_pairs, io, "exited")
    /\ UNCHANGED <<all_id_pairs, ids_to_process, count, last, ncalls, succeeded,
                   processed, batch_state, scanned>>

\* 'b' at the manual prompt: save, then back to the main menu
ManualBack ==
    /\ pc = "manual"
    /\ \E io \in IoFates : SaveAndGo(all_id_pairs, io, "menu")
    /\ UNCHANGED <<all_id_pairs, ids_to_process, count, last, ncalls, succeeded,
                   processed, batch_state, scanned>>

\* an input that is not all digits: "AssetId must be a number."
ManualNotNumber ==
    /\ pc = "manual"
    /\ \E aid \in ManualInputs : ~isdigit(aid)
    /\ UNCHANGED vars

\* a digit string at the manual prompt
ManualReupload ==
    /\ pc = "manual"
    /\ ncalls < MaxCalls
    /\ \E aid \in ManualInputs, dl \in SessionDlReplies, ul \in SessionUlReplies :
          LET o == process_reupload(aid, dl, ul)
          IN  /\ isdigit(aid)
              /\ last' = o
              /\ ncalls' = ncalls + 1
              /\ IF o.raised
                 THEN /\ pc' = "crashed"
                      /\ exc' = "AttributeError"
                      /\ UNCHANGED <<all_id_pairs, succeeded>>
                 ELSE /\ all_id_pairs' = record(all_id_pairs, aid, o)
                      /\ succeeded' = Note(succeeded, aid, o)
                      /\ UNCHANGED <<pc, exc>>
    /\ UNCHANGED <<ids_to_process, count, file, last_save, processed, batch_state,
                   session_saves, completed, scanned>>

Next ==
    \/ Quit
    \/ InvalidMode
    \/ BatchNoFile
    \/ BatchEmpty
    \/ BatchStart
    \/ BatchStep
    \/ ManualStart
    \/ ManualQuit
    \/ ManualBack
    \/ ManualNotNumber
    \/ ManualReupload

Spec == Init /\ [][Next]_vars

(* ------------------- process_reupload called on its own --------------- *)
\* One call of process_reupload with any identifier text and any replies
CallReupload ==
    /\ ncalls = 0
    /\ \E asset_id \in AssetIdInputs, dl \in DlReplies, ul \in UlReplies :
          last' = process_reupload(asset_id, dl, ul)
    /\ ncalls' = 1
    /\ UNCHANGED <<pc, all_id_pairs, ids_to_process, count, file, exc, last_save,
                   succeeded, processed, batch_state, session_saves, completed,
                   scanned>>

NextReupload == CallReupload

SpecReupload == Init /\ [][NextReupload]_vars

(* ---------------- extract_animation_ids called on its own ------------- *)
\* One call of extract_animation_ids on any document
CallExtract ==
    /\ ~scanned.given
    /\ \E doc \in ScanDocuments :
          /\ scanned' = Scan(doc)
          /\ ids_to_process' = extract_animation_ids(doc)
    /\ UNCHANGED <<pc, all_id_pairs, count, file, last, exc, ncalls, last_save,
                   succeeded, processed, batch_state, session_saves, completed>>

NextExtract == CallExtract

SpecExtract == Init /\ [][NextExtract]_vars

(* ------------------------------ properties ---------------------------- *)
Called == last # NoCall
ArgIsInteger == PyInt(last.arg).ok
Count(seq, x) == Cardinality({i \in 1..Len(seq) : seq[i] = x})
\* a reply is a success when no fault occurred and the status is below 400
DlSucceeded(dl) == dl.fault = "none" /\ dl.status < 400
UlSucceeded(ul) == ul.fault = "none" /\ ul.status < 400
Present(v) == v.t # "absent"

\* what a reader of the map file gets: each decimal text parsed as an integer
JsonLoad(f) ==
    [i \in 1..Len(f.records) |->
        [oldId |-> PyInt(f.records[i].oldId).v, newId |-> PyInt(f.records[i].newId).v]]

\* C1: a call whose identifier text parses as an integer invokes
\* download_asset exactly once, and upload_asset exactly once when that
\* download succeeded and not at all otherwise; nothing is invoked a second
\* time, whatever the outcome of the download, the upload or the lookup.
C1_FetchOncePublishOnce ==
    (Called /\ ArgIsInteger) =>
        /\ Count(last.net, "download_asset") = 1
        /\ Count(last.net, "upload_asset") = (IF DlSucceeded(last.dl) THEN 1 ELSE 0)
        /\ Len(last.net) <= 2

\* a call whose upload failed: one download, one upload, no retry
C1_Witness ==
    /\ Called
    /\ last.ul.status = 500
    /\ last.net = <<"download_asset", "upload_asset">>

\* C2 as stated: every identifier text that is non-numeric or does not
\* denote a positive integer is refused with no network call.
C2_Original ==
    (Called /\ (~ArgIsInteger \/ PyInt(last.arg).v <= 0)) =>
        /\ last.net = <<>>
        /\ last.msg = "Invalid AssetId"

\* C2 amended: a call makes no network call exactly when its identifier
\* text does not parse as an integer, and it then returns the
\* invalid-identifier failure; zero and negative integers are downloaded.
C2_NotAnInteger ==
    Called =>
        /\ (~ArgIsInteger <=> last.net = <<>>)
        /\ ~ArgIsInteger =>
              (~last.success /\ ~last.raised /\ last.msg = "Invalid AssetId")

\* the text "a" was refused before any network call
C2_Witness ==
    /\ last.arg = <<"a">>
    /\ last.msg = "Invalid AssetId"
    /\ last.net = <<>>

FirstPresent(b) ==
    IF Present(b.assetId) THEN b.assetId
    ELSE IF Present(b.id) THEN b.id
    ELSE b.data.assetId

\* C4 as stated: the returned identifier is the value of the first member
\* that is present among assetId, id, data.assetId.
C4_Original == last.success => last.new_id = FirstPresent(last.ul.body)

\* C4 amended: after a successful upload the call returns success exactly
\* when one of assetId, id, data.assetId holds a true value that the lookup
\* reaches, and the returned identifier is the first true value in that
\* order; a member that is present with a false value (null, 0, "") is
\* passed over like an absent one.
C4_FirstTruthy ==
    (Called /\ ArgIsInteger /\ DlSucceeded(last.dl) /\ UlSucceeded(last.ul)
       /\ ~last.raised) =>
        LET b == last.ul.body
        IN  \/ Truthy(b.assetId) /\ last.success /\ last.new_id = b.assetId
            \/ /\ ~Truthy(b.assetId) /\ Truthy(b.id)
               /\ last.success /\ last.new_id = b.id
            \/ /\ ~Truthy(b.assetId) /\ ~Truthy(b.id)
               /\ b.data.t = "dict" /\ Truthy(b.data.assetId)
               /\ last.success /\ last.new_id = b.data.assetId
            \/ /\ ~Truthy(b.assetId) /\ ~Truthy(b.id)
               /\ ~(b.data.t = "dict" /\ Truthy(b.data.assetId))
               /\ ~last.success

\* {"assetId": 0, "id": 5, "data": {"assetId": 7}} resolved to 5
C4_Witness ==
    /\ last.success
    /\ last.ul.body = Body(JInt(0), JInt(5), DDict(JInt(7)))
    /\ last.new_id = JInt(5)

\* a response with no identifier at assetId, id or data.assetId
NoIdentifier(b) ==
    /\ ~Present(b.assetId)
    /\ ~Present(b.id)
    /\ ~(b.data.t = "dict" /\ Present(b.data.assetId))

\* C5: when the upload succeeds and the response holds no identifier at any
\* of the three paths, the call returns the identifier-not-found failure
\* and main() goes on without recording a mapping.
C5_IdentifierNotFound ==
    (Called /\ UlSucceeded(last.ul) /\ NoIdentifier(last.ul.body)) =>
        /\ ~last.raised
        /\ ~last.success
        /\ last.msg = "Could not find new asset id"
        /\ pc # "crashed"

\* C6: process_reupload never raises; every call returns a pair.
C6_NeverRaises == ~last.raised

\* C7: a batch that has begun is never aborted: it hands every extracted
\* identifier to process_reupload and reaches its completion step.
C7_BatchCompletes ==
    /\ batch_state # "aborted"
    /\ batch_state = "complete" => processed = sorted(ids_to_process)

\* C8: the identifier map holds exactly one (old, new) pair per successful
\* call of the session, pairing the call's argument with the identifier it
\* returned, and nothing for a failed call.
C8_OnePerSuccess ==
    /\ all_id_pairs = succeeded
    /\ (Called /\ ~last.success /\ ~last.raised) => last.new_id = JNull

\* one success, then a failed call: still one mapping
C8_Witness ==
    /\ pc = "manual"
    /\ Len(all_id_pairs) = 1
    /\ Called
    /\ ~last.success

\* C9: every step leaves the identifier map unchanged, or appends the pair
\* of the call just made at its end, or empties it; it is emptied only at
\* the main menu when a mode other than quit is entered.
C9_AppendOnly ==
    [][\/ all_id_pairs' = all_id_pairs
       \/ /\ ncalls' # ncalls
          /\ all_id_pairs' = Append(all_id_pairs, <<last'.arg, last'.new_id>>)
       \/ /\ pc = "menu"
          /\ pc' # "exited"
          /\ all_id_pairs' = <<>>]_vars

\* two mappings, the second being the pair of the latest call
C9_Witness ==
    /\ Len(all_id_pairs) = 2
    /\ last.success
    /\ all_id_pairs[2] = <<last.arg, last.new_id>>
    /\ all_id_pairs[1] # all_id_pairs[2]

\* C10: after save_id_map ran on a list, with the file system accepting
\* the write, the file holds one record per mapping of the list, in order,
\* and reading it back gives the integer values of the list.
C10_PersistRoundTrip ==
    (last_save.called /\ last_save.io # "open_error" /\ last_save.io # "write_error") =>
        /\ file.state = "written"
        /\ Len(file.records) = Len(last_save.list)
        /\ \A i \in 1..Len(file.records) :
              /\ i <= Len(last_save.list)
              /\ IntOfValue(last_save.list[i][2]).ok
              /\ JsonLoad(file)[i] = [oldId |-> PyInt(last_save.list[i][1]).v,
                                      newId |-> IntOfValue(last_save.list[i][2]).v]

\* a step that ends a batch or a manual session
SessionEnds == pc \in {"batch", "manual"} /\ pc' \in {"menu", "exited"}

\* C11 as stated: once a session has completed, a written map file holds
\* the mappings of that session and of no other.
C11_Original ==
    (completed.any /\ file.state = "written") =>
        JsonLoad(file) = MapData(completed.pairs)

\* C11 amended: the map file is never cumulative: a step that changes it
\* replaces its whole content by the mappings of the session that is
\* ending (or leaves it cut short when the write fails); a session that
\* ends with no mapping does not touch the file, which then still holds
\* what an earlier session wrote.
C11_NeverCumulative ==
    [][/\ (file' # file) =>
             \/ file'.state = "partial"
             \/ /\ file'.state = "written"
                /\ SessionEnds
                /\ Len(file'.records) = Len(succeeded')
                /\ JsonLoad(file') = MapData(succeeded')
       /\ (SessionEnds /\ succeeded' = <<>>) => file' = file]_vars

\* a session ended with no mapping while the file holds an earlier one
C11_Witness ==
    /\ completed.any
    /\ completed.pairs = <<>>
    /\ file.state = "written"
    /\ file.records # <<>>

\* C12: every mapping of a written map file has oldId different from
\* newId and both values positive.
C12_DistinctPositive ==
    file.state = "written" =>
        \A i \in 1..Len(file.records) :
            /\ JsonLoad(file)[i].oldId # JsonLoad(file)[i].newId
            /\ JsonLoad(file)[i].oldId > 0
            /\ JsonLoad(file)[i].newId > 0

\* C13: save_id_map returns to its caller without raising, for every list
\* of recorded mappings.
C13_SaveNeverRaises ==
    /\ last_save.called => ~last_save.raised
    /\ exc # "ValueError"

\* C14 as stated: the call pauses exactly when it returns success.
C14_Original == Called => (last.slept > 0 <=> last.success)

\* C14 amended: the call pauses for one second exactly when the upload
\* succeeded and the lookup of the new identifier raised nothing, that is
\* when it returns success and also when it returns identifier-not-found;
\* a call that fails earlier returns without pausing.
C14_PauseAfterLookup ==
    Called =>
        last.slept =
            (IF ArgIsInteger /\ DlSucceeded(last.dl) /\ UlSucceeded(last.ul)
                /\ ~last.raised
             THEN SleepSeconds ELSE 0)

\* an identifier-not-found return that paused
C14_Witness ==
    /\ last.msg = "Could not find new asset id"
    /\ ~last.success
    /\ last.slept = SleepSeconds

\* C15: a batch hands each numeric identifier to process_reupload once,
\* however its text is written, so the map of a batch never holds two
\* mappings with the same integer oldId.
C15_UniqueOldIds ==
    batch_state # "none" =>
        /\ \A i, j \in 1..Len(processed) :
              (i # j /\ PyInt(processed[i]).ok /\ PyInt(processed[j]).ok) =>
                  PyInt(processed[i]).v # PyInt(processed[j]).v
        /\ \A i, j \in 1..Len(all_id_pairs) :
              i # j => PyInt(all_id_pairs[i][1]).v # PyInt(all_id_pairs[j][1]).v

\* C16: when the same old identifier is reuploaded successfully twice in
\* one session, both mappings stay in the identifier map at their places,
\* and a save of that map whose write succeeds puts both in the file, in
\* the same order.
C16_DuplicatesKept ==
    /\ \A i, j \in 1..Len(succeeded) :
          (i < j /\ succeeded[i][1] = succeeded[j][1]) =>
              /\ Len(all_id_pairs) >= j
              /\ all_id_pairs[i] = succeeded[i]
              /\ all_id_pairs[j] = succeeded[j]
    /\ (last_save.called /\ last_save.io = "ok") =>
          \A i, j \in 1..Len(last_save.list) :
              (i < j /\ last_save.list[i][1] = last_save.list[j][1]) =>
                  /\ file.state = "written"
                  /\ Len(file.records) >= j
                  /\ JsonLoad(file)[i] = MapData(last_save.list)[i]
                  /\ JsonLoad(file)[j] = MapData(last_save.list)[j]

\* "7" reuploaded twice in a manual session, both mappings saved
C16_Witness ==
    /\ Len(all_id_pairs) = 2
    /\ all_id_pairs[1][1] = all_id_pairs[2][1]
    /\ all_id_pairs[1][2] # all_id_pairs[2][2]
    /\ last_save.list = all_id_pairs
    /\ last_save.io = "ok"
    /\ Len(file.records) = 2
    /\ file.records[1].oldId = file.records[2].oldId

\* the text left when the scheme is removed from the front of a value
StripPrefix(t) == IF t # <<>> /\ Head(t) = SCHEME THEN Tail(t) ELSE t

\* the identifiers C17 describes: marked values that are a digit string, or
\* the scheme followed only by digits
PrefixedDigitIds(doc) ==
    IF ~doc.parsed THEN {}
    ELSE {StripPrefix(p.text) :
            p \in {q \in doc.props :
                     /\ q.marked
                     /\ \/ isdigit(q.text)
                        \/ /\ q.text # <<>>
                           /\ Head(q.text) = SCHEME
                           /\ isdigit(Tail(q.text))}}

\* C17: extract_animation_ids returns exactly the marked values that are a
\* bare digit string or the scheme prefix followed only by digits.
C17_ExactlyPrefixedDigits ==
    scanned.given => ids_to_process = PrefixedDigitIds(scanned.doc)

\* C18: whenever main() is back at the menu or has exited with a
\* non-empty identifier map, save_id_map has been called with exactly that
\* list in the session that built it, so no reset and no exit drops
\* mappings that were never handed to a save.
C18_SavedBeforeDropped ==
    (pc \in {"menu", "exited"} /\ all_id_pairs # <<>>) =>
        /\ last_save.called
        /\ ~last_save.raised
        /\ last_save.list = all_id_pairs
        /\ session_saves >= 1

\* 'q' in manual mode after a reupload; the save was attempted though the
\* file could not be opened
C18_Witness ==
    /\ pc = "exited"
    /\ all_id_pairs # <<>>
    /\ last_save.list = all_id_pairs
    /\ last_save.io = "open_error"

\* C19: save_id_map is called at most once per session and no
\* process_reupload call of the session follows it; a session ended by an
\* exception of process_reupload leaves the file as it was.
C19_SaveOnceAtEnd ==
    [][/\ session_saves' <= 1
       /\ (ncalls' # ncalls) => session_saves = 0
       /\ (session_saves' > session_saves) => pc' \in {"menu", "exited", "crashed"}
       /\ (file' # file) => (session_saves' = session_saves + 1 /\ pc' \in {"menu", "exited"})
       /\ (pc' = "crashed" /\ exc' = "AttributeError") =>
              (file' = file /\ session_saves' = 0)]_vars

\* a manual session of two reuploads written once, at 'b'
C19_Witness ==
    /\ pc = "menu"
    /\ session_saves = 1
    /\ ncalls = MaxCalls
    /\ Len(all_id_pairs) = MaxCalls
    /\ file.state = "written"
    /\ Len(file.records) = MaxCalls

=============================================================================
